---- MODULE Spec2Model ----
(***************************************************************************)
(* Model of gilded_rose.py: an inventory of Item objects whose quality and *)
(* sell_in are updated once per call of GildedRose.update_quality by the   *)
(* ItemUpdater subclass that UpdaterFactory.create_updater selects from    *)
(* the item's name.                                                         *)
(*                                                                         *)
(* An Item is a record [name, sell_in, quality]; the inventory is built    *)
(* from distinct Item objects, so it is a sequence of such records.        *)
(* Python integers are unbounded, so no width is modelled.                 *)
(***************************************************************************)
EXTENDS Integers, Sequences, FiniteSets

\* items:    GildedRose.items, the list given to GildedRose.__init__
\* updaters: the classes of the updaters the last call of
\*           GildedRose.update_quality created, one per item, in order
\* day:      the number of calls of GildedRose.update_quality made so far
VARIABLES items, updaters, day

vars == <<items, updaters, day>>

----------------------------------------------------------------------------
(* Bounds of the model                                                     *)

\* largest initial sell_in
MaxSellIn == 12
\* initial sell_in goes down to -MaxPastDue
MaxPastDue == 2
\* initial quality of unvalidated items goes MaxOutside beyond [0,50]
MaxOutside == 3
\* calls of GildedRose.update_quality in one run
MaxDays == 36
\* longest inventory of the several-item specification
MaxItems == 2

----------------------------------------------------------------------------
(* Item, names                                                             *)

Item(name, sell_in, quality) ==
    [name |-> name, sell_in |-> sell_in, quality |-> quality]

AGED_BRIE == "Aged Brie"
SULFURAS == "Sulfuras, Hand of Ragnaros"
BACKSTAGE == "Backstage passes to a TAFKAL80ETC concert"

\* names with no policy of their own: an ordinary name, a special name in
\* another case, a proper prefix of a special name, a name that contains a
\* special name, the empty string
OtherNames ==
    { "+5 Dexterity Vest", "aged brie", "Backstage passes",
      "Conjured Aged Brie", "" }

Names == {AGED_BRIE, SULFURAS, BACKSTAGE} \cup OtherNames

----------------------------------------------------------------------------
(* class ItemUpdater                                                       *)

MIN_QUALITY == 0
MAX_QUALITY == 50

min(a, b) == IF a <= b THEN a ELSE b
max(a, b) == IF a >= b THEN a ELSE b

ItemUpdater_update_quality(item) == item

ItemUpdater_update_sell_in(item) == [item EXCEPT !.sell_in = item.sell_in - 1]

ItemUpdater_apply_expired_effect(item) == item

increase_quality(item, amount) ==
    [item EXCEPT !.quality = min(item.quality + amount, MAX_QUALITY)]

decrease_quality(item, amount) ==
    [item EXCEPT !.quality = max(item.quality - amount, MIN_QUALITY)]

is_expired_le(item) == item.sell_in <= 0

is_expired(item) == item.sell_in < 0

----------------------------------------------------------------------------
(* class NormalItemUpdater                                                 *)

\* a guard that is off by one
NormalItemUpdater_update_quality_ge(item) ==
    IF item.quality >= 0
    THEN [item EXCEPT !.quality = item.quality - 1]
    ELSE item

NormalItemUpdater_update_quality(item) ==
    IF item.quality > 0
    THEN [item EXCEPT !.quality = item.quality - 1]
    ELSE item

NormalItemUpdater_apply_expired_effect_unguarded(item) ==
    IF is_expired(item)
    THEN [item EXCEPT !.quality = item.quality - 1]
    ELSE item

NormalItemUpdater_apply_expired_effect(item) ==
    IF is_expired(item)
    THEN IF item.quality > 0
         THEN [item EXCEPT !.quality = item.quality - 1]
         ELSE item
    ELSE item

----------------------------------------------------------------------------
(* class AgedBrieUpdater                                                   *)

AgedBrieUpdater_update_quality_unguarded(item) ==
    [item EXCEPT !.quality = item.quality + 1]

AgedBrieUpdater_update_quality(item) ==
    IF item.quality < 50
    THEN [item EXCEPT !.quality = item.quality + 1]
    ELSE item

AgedBrieUpdater_apply_expired_effect(item) ==
    IF is_expired(item)
    THEN IF item.quality < 50
         THEN [item EXCEPT !.quality = item.quality + 1]
         ELSE item
    ELSE item

----------------------------------------------------------------------------
(* class SulfurasUpdater                                                   *)

SulfurasUpdater_update_quality(item) == item

SulfurasUpdater_update_sell_in_inherited(item) ==
    ItemUpdater_update_sell_in(item)

SulfurasUpdater_update_sell_in(item) == item

SulfurasUpdater_apply_expired_effect(item) == item

----------------------------------------------------------------------------
(* class BackstagePassUpdater                                              *)

\* the three guarded increments run one after the other on the same item;
\* sell_in is not written in between
BackstagePassUpdater_update_quality_cap_first_only(item) ==
    LET i1 == IF item.quality < 50
              THEN [item EXCEPT !.quality = item.quality + 1]
              ELSE item
        i2 == IF i1.sell_in < 11
              THEN [i1 EXCEPT !.quality = i1.quality + 1]
              ELSE i1
        i3 == IF i2.sell_in < 6
              THEN [i2 EXCEPT !.quality = i2.quality + 1]
              ELSE i2
    IN  i3

BackstagePassUpdater_update_quality_le(item) ==
    LET i1 == IF item.quality < 50
              THEN [item EXCEPT !.quality = item.quality + 1]
              ELSE item
        i2 == IF i1.sell_in <= 11
              THEN IF i1.quality < 50
                   THEN [i1 EXCEPT !.quality = i1.quality + 1]
                   ELSE i1
              ELSE i1
        i3 == IF i2.sell_in <= 6
              THEN IF i2.quality < 50
                   THEN [i2 EXCEPT !.quality = i2.quality + 1]
                   ELSE i2
              ELSE i2
    IN  i3

BackstagePassUpdater_update_quality(item) ==
    LET i1 == IF item.quality < 50
              THEN [item EXCEPT !.quality = item.quality + 1]
              ELSE item
        i2 == IF i1.sell_in < 11
              THEN IF i1.quality < 50
                   THEN [i1 EXCEPT !.quality = i1.quality + 1]
                   ELSE i1
              ELSE i1
        i3 == IF i2.sell_in < 6
              THEN IF i2.quality < 50
                   THEN [i2 EXCEPT !.quality = i2.quality + 1]
                   ELSE i2
              ELSE i2
    IN  i3

BackstagePassUpdater_apply_expired_effect_none(item) ==
    ItemUpdater_apply_expired_effect(item)

BackstagePassUpdater_apply_expired_effect(item) ==
    IF is_expired(item)
    THEN [item EXCEPT !.quality = 0]
    ELSE item

----------------------------------------------------------------------------
(* class UpdaterFactory                                                    *)

Updaters ==
    { "AgedBrieUpdater", "SulfurasUpdater", "BackstagePassUpdater",
      "NormalItemUpdater" }

\* a factory that ignores the case of the name
create_updater_any_case(item) ==
    IF item.name \in {"Aged Brie", "aged brie"}
    THEN "AgedBrieUpdater"
    ELSE IF item.name = "Sulfuras, Hand of Ragnaros"
    THEN "SulfurasUpdater"
    ELSE IF item.name = "Backstage passes to a TAFKAL80ETC concert"
    THEN "BackstagePassUpdater"
    ELSE "NormalItemUpdater"

\* the class of the updater the factory returns for the item
create_updater(item) ==
    IF item.name = "Aged Brie"
    THEN "AgedBrieUpdater"
    ELSE IF item.name = "Sulfuras, Hand of Ragnaros"
    THEN "SulfurasUpdater"
    ELSE IF item.name = "Backstage passes to a TAFKAL80ETC concert"
    THEN "BackstagePassUpdater"
    ELSE "NormalItemUpdater"

----------------------------------------------------------------------------
(* Method resolution, and ItemUpdater.update                               *)

\* updater.update_quality() for an updater of class cls
update_quality(cls, item) ==
    CASE cls = "NormalItemUpdater" -> NormalItemUpdater_update_quality(item)
      [] cls = "AgedBrieUpdater" -> AgedBrieUpdater_update_quality(item)
      [] cls = "SulfurasUpdater" -> SulfurasUpdater_update_quality(item)
      [] cls = "BackstagePassUpdater" ->
             BackstagePassUpdater_update_quality(item)

\* updater.update_sell_in(): only SulfurasUpdater overrides it
update_sell_in(cls, item) ==
    CASE cls = "SulfurasUpdater" -> SulfurasUpdater_update_sell_in(item)
      [] OTHER -> ItemUpdater_update_sell_in(item)

\* updater.apply_expired_effect()
apply_expired_effect(cls, item) ==
    CASE cls = "NormalItemUpdater" ->
             NormalItemUpdater_apply_expired_effect(item)
      [] cls = "AgedBrieUpdater" -> AgedBrieUpdater_apply_expired_effect(item)
      [] cls = "SulfurasUpdater" -> SulfurasUpdater_apply_expired_effect(item)
      [] cls = "BackstagePassUpdater" ->
             BackstagePassUpdater_apply_expired_effect(item)

\* ItemUpdater.update: quality, then sell_in, then the expired effect
update(cls, item) ==
    apply_expired_effect(cls, update_sell_in(cls, update_quality(cls, item)))

----------------------------------------------------------------------------
(* class GildedRose                                                        *)

RECURSIVE update_loop(_, _, _)
\* the for loop of GildedRose.update_quality from index k on: its are the
\* items and ups the updaters created so far; the result is the pair of both
update_loop(its, ups, k) ==
    IF k > Len(its)
    THEN <<its, ups>>
    ELSE LET updater == create_updater(its[k])
         IN  update_loop([its EXCEPT ![k] = update(updater, its[k])],
                         Append(ups, updater), k + 1)

\* a loop that misses the last item
GildedRose_update_quality_short(its) ==
    IF Len(its) = 0
    THEN <<its, <<>>>>
    ELSE LET r == update_loop(SubSeq(its, 1, Len(its) - 1), <<>>, 1)
         IN  <<r[1] \o <<its[Len(its)]>>,
               Append(r[2], create_updater(its[Len(its)]))>>

\* GildedRose.update_quality: <<the items, the updaters created>> after it
GildedRose_update_quality(its) == update_loop(its, <<>>, 1)

----------------------------------------------------------------------------
(* Initial inventories                                                     *)

SellIns == (0 - MaxPastDue) .. MaxSellIn

\* qualities within the bounds the updaters keep
BoundedQualities == MIN_QUALITY .. MAX_QUALITY

\* qualities an Item is constructed with when nothing validates them
AnyQualities == (MIN_QUALITY - MaxOutside) .. (MAX_QUALITY + MaxOutside)

\* Items with quality in [0,50], Sulfuras with any quality
ValidItems ==
    { Item(n, s, q) : n \in Names \ {SULFURAS}, s \in SellIns,
                      q \in BoundedQualities }
    \cup { Item(SULFURAS, s, q) : s \in SellIns, q \in AnyQualities }

\* Items with any quality
AnyItems == { Item(n, s, q) : n \in Names, s \in SellIns, q \in AnyQualities }

\* a few items of every policy, for inventories of several items
FewItems ==
    { Item(n, s, q) :
        n \in {AGED_BRIE, SULFURAS, BACKSTAGE, "+5 Dexterity Vest"},
        s \in {0, 6}, q \in {0, 49} }

RECURSIVE SeqsUpTo(_, _)
\* the sequences of 1..n elements of S
SeqsUpTo(S, n) ==
    IF n = 0
    THEN {}
    ELSE [1..n -> S] \cup SeqsUpTo(S, n - 1)

\* GildedRose([item]) with a valid item
Init ==
    /\ items \in { <<it>> : it \in ValidItems }
    /\ updaters = <<>>
    /\ day = 0

\* GildedRose([item]) with any item
InitAny ==
    /\ items \in { <<it>> : it \in AnyItems }
    /\ updaters = <<>>
    /\ day = 0

\* GildedRose(items) with one to MaxItems items
InitInventory ==
    /\ items \in SeqsUpTo(FewItems, MaxItems)
    /\ updaters = <<>>
    /\ day = 0

----------------------------------------------------------------------------
(* Operations                                                              *)

\* one call of GildedRose.update_quality
Tick ==
    /\ day < MaxDays
    /\ LET r == GildedRose_update_quality(items)
       IN  /\ items' = r[1]
           /\ updaters' = r[2]
    /\ day' = day + 1

Next == Tick

Spec == Init /\ [][Next]_vars

\* update_quality is called day after day
FairSpec == Init /\ [][Next]_vars /\ WF_vars(Tick)

SpecAny == InitAny /\ [][Next]_vars

SpecInventory == InitInventory /\ [][Next]_vars

----------------------------------------------------------------------------
(* Vocabulary of the properties                                            *)

IsNormal(item) == item.name \notin {AGED_BRIE, SULFURAS, BACKSTAGE}

InBounds(q) == 0 <= q /\ q <= 50

\* quality lost (Normal) or gained (Aged Brie) in a tick that starts at
\* sell_in s
DailyChange(s) == IF s - 1 >= 0 THEN 1 ELSE 2

\* increments of a Backstage pass whose thresholds hold at sell_in s
PassIncrements(s) ==
    1 + (IF s < 11 THEN 1 ELSE 0) + (IF s < 6 THEN 1 ELSE 0)

----------------------------------------------------------------------------
\* C1: every item that is not Sulfuras and starts with 0 <= quality <= 50
\* has 0 <= quality <= 50 after any number of calls of update_quality.
C1_QualityInBounds ==
    \A i \in DOMAIN items :
        items[i].name # SULFURAS => InBounds(items[i].quality)

\* an Aged Brie that has been updated past its sell-by date and sits at 50
C1_Witness ==
    \E i \in DOMAIN items :
        /\ day >= 2
        /\ items[i].name = AGED_BRIE
        /\ items[i].sell_in < 0 - MaxPastDue
        /\ items[i].quality = 50

\* C2: a call of update_quality leaves the sell_in and the quality of a
\* Sulfuras item as they were, whatever they are (the quality is never
\* clamped), so they equal the initial values after any number of calls.
C2_SulfurasUnchanged ==
    [][\A i \in DOMAIN items :
          items[i].name = SULFURAS =>
              /\ i \in DOMAIN items'
              /\ items'[i] = items[i]]_vars

\* a Sulfuras with quality above 50 after being handled by its updater
C2_Witness ==
    \E i \in DOMAIN items :
        /\ day >= 1
        /\ updaters[i] = "SulfurasUpdater"
        /\ items[i].name = SULFURAS
        /\ items[i].quality > 50

\* C3: one call of update_quality takes a Normal item with sell_in s and
\* quality q in [0,50] to sell_in s - 1 and quality max(q - d, 0), d = 1 if
\* s - 1 >= 0 and d = 2 otherwise (so quality 0 stays 0).
C3_NormalTick ==
    [][\A i \in DOMAIN items :
          LET s == items[i].sell_in
              q == items[i].quality
          IN  (IsNormal(items[i]) /\ InBounds(q)) =>
                  /\ items'[i].sell_in = s - 1
                  /\ items'[i].quality =
                         (IF q - DailyChange(s) >= 0
                          THEN q - DailyChange(s) ELSE 0)]_vars

\* a Normal item after its first update, which started at sell_in 0 and
\* lost 2
C3_Witness ==
    \E i \in DOMAIN items :
        /\ day = 1
        /\ IsNormal(items[i])
        /\ items[i].sell_in = -1
        /\ items[i].quality = 48

\* C4: one call of update_quality takes an Aged Brie with sell_in s and
\* quality q in [0,50] to sell_in s - 1 and quality min(q + d, 50), d = 1
\* if s - 1 >= 0 and d = 2 otherwise (so quality 50 stays 50).
C4_AgedBrieTick ==
    [][\A i \in DOMAIN items :
          LET s == items[i].sell_in
              q == items[i].quality
          IN  (items[i].name = AGED_BRIE /\ InBounds(q)) =>
                  /\ items'[i].sell_in = s - 1
                  /\ items'[i].quality =
                         (IF q + DailyChange(s) <= 50
                          THEN q + DailyChange(s) ELSE 50)]_vars

\* an Aged Brie after its first update, which started at sell_in 0 and
\* gained 2
C4_Witness ==
    \E i \in DOMAIN items :
        /\ day = 1
        /\ items[i].name = AGED_BRIE
        /\ items[i].sell_in = -1
        /\ items[i].quality = 2

\* C5: one call of update_quality takes a Backstage pass with sell_in s
\* and quality q in [0,50] to sell_in s - 1 and to quality 0 if s <= 0,
\* else to min(q + k, 50) with k = 1 for s >= 11, 2 for 6 <= s <= 10 and
\* 3 for 1 <= s <= 5.
C5_BackstageTick ==
    [][\A i \in DOMAIN items :
          LET s == items[i].sell_in
              q == items[i].quality
              k == IF s >= 11 THEN 1 ELSE IF s >= 6 THEN 2 ELSE 3
          IN  (items[i].name = BACKSTAGE /\ InBounds(q)) =>
                  /\ items'[i].sell_in = s - 1
                  /\ items'[i].quality =
                         (IF s <= 0 THEN 0
                          ELSE IF q + k <= 50 THEN q + k ELSE 50)]_vars

\* a Backstage pass after its first update, which started at sell_in 10
\* with quality 20
C5_Witness ==
    \E i \in DOMAIN items :
        /\ day = 1
        /\ items[i].name = BACKSTAGE
        /\ items[i].sell_in = 9
        /\ items[i].quality = 22

\* C6: the updater created for an item is the Aged Brie, Sulfuras or
\* Backstage one exactly when the name equals that special name, and the
\* Normal one for every other name; one updater is created for every item.
C6_Dispatch ==
    /\ day >= 1 => DOMAIN updaters = DOMAIN items
    /\ \A i \in DOMAIN updaters :
          /\ updaters[i] \in Updaters
          /\ updaters[i] = "AgedBrieUpdater" <=> items[i].name = AGED_BRIE
          /\ updaters[i] = "SulfurasUpdater" <=> items[i].name = SULFURAS
          /\ updaters[i] = "BackstagePassUpdater" <=>
                 items[i].name = BACKSTAGE
          /\ updaters[i] = "NormalItemUpdater" <=> IsNormal(items[i])

\* every name that is not special has been dispatched to the Normal
\* policy; here the lower-case "aged brie"
C6_Witness ==
    \E i \in DOMAIN updaters :
        /\ items[i].name = "aged brie"
        /\ updaters[i] = "NormalItemUpdater"

\* C7: one call of update_quality over N items leaves every item as a call
\* over the inventory holding only that item would, and keeps the number,
\* the order and the names of the items.
C7_Independent ==
    [][/\ Len(items') = Len(items)
       /\ \A i \in DOMAIN items :
             /\ items'[i] = GildedRose_update_quality(<<items[i]>>)[1][1]
             /\ items'[i].name = items[i].name]_vars

\* two items of different policies, both updated three times
C7_Witness ==
    /\ day = 3
    /\ Len(items) = 2
    /\ items[1].name = BACKSTAGE
    /\ items[2].name = AGED_BRIE
    /\ items[1].sell_in = 3
    /\ items[2].sell_in = -3

\* the bounded helpers with amount 1
HelperDecrement(item) == decrease_quality(item, 1)

HelperIncrement(item) == increase_quality(item, 1)

\* the steps the amended C8 describes
GuardedDecrement(item) ==
    IF item.quality >= 0 THEN decrease_quality(item, 1) ELSE item

GuardedIncrement(item) ==
    IF item.quality <= 50 THEN increase_quality(item, 1) ELSE item

\* one update of a Normal, Aged Brie or Backstage item in which every
\* decrement step is Dec and every increment step is Inc
UpdateWithSteps(item, Dec(_), Inc(_)) ==
    LET late(it) == [it EXCEPT !.sell_in = it.sell_in - 1]
    IN  IF item.name = AGED_BRIE
        THEN LET b == late(Inc(item))
             IN  IF b.sell_in < 0 THEN Inc(b) ELSE b
        ELSE IF item.name = BACKSTAGE
        THEN LET a1 == Inc(item)
                 a2 == IF a1.sell_in < 11 THEN Inc(a1) ELSE a1
                 a3 == IF a2.sell_in < 6 THEN Inc(a2) ELSE a2
                 b == late(a3)
             IN  IF b.sell_in < 0 THEN [b EXCEPT !.quality = 0] ELSE b
        ELSE LET b == late(Dec(item))
             IN  IF b.sell_in < 0 THEN Dec(b) ELSE b

\* C8 as claimed: every quality change a call makes to an item that is not
\* Sulfuras is the bounded helper with amount 1, whatever integer the quality
\* is: each decrement step leaves max(q - 1, 0), each increment step
\* min(q + 1, 50) (the Backstage reset to 0 excepted).
C8_StepsAreHelpers ==
    [][\A i \in DOMAIN items :
          items[i].name # SULFURAS =>
              items'[i] =
                  UpdateWithSteps(items[i], HelperDecrement,
                                  HelperIncrement)]_vars

\* C8 amended: every such change is a guarded step of 1: a decrement step
\* leaves max(q - 1, 0) for every q >= 0 and leaves a negative q as it is;
\* an increment step leaves min(q + 1, 50) for every q <= 50 and leaves a
\* q above 50 as it is.
C8_StepsAreGuarded ==
    [][\A i \in DOMAIN items :
          items[i].name # SULFURAS =>
              items'[i] =
                  UpdateWithSteps(items[i], GuardedDecrement,
                                  GuardedIncrement)]_vars

\* an Aged Brie constructed with quality above 50, still above 50 after two
\* updates
C8_Witness ==
    \E i \in DOMAIN items :
        /\ day = 2
        /\ items[i].name = AGED_BRIE
        /\ items[i].quality = 52

\* C9: for a Backstage pass with quality q in [0,50], update_quality (the
\* step before sell_in is decremented) leaves min(q + k, 50), k the number
\* of increments whose threshold holds, and leaves sell_in alone.
C9_CapPerStepIsCapOnce ==
    \A i \in DOMAIN items :
        LET it == items[i]
            total == it.quality + PassIncrements(it.sell_in)
        IN  (it.name = BACKSTAGE /\ InBounds(it.quality)) =>
                BackstagePassUpdater_update_quality(it) =
                    [it EXCEPT !.quality = IF total <= 50 THEN total ELSE 50]

\* a pass at quality 49 with all three increments due, which this step
\* takes to 50
C9_Witness ==
    \E i \in DOMAIN items :
        /\ day >= 1
        /\ items[i].name = BACKSTAGE
        /\ items[i].quality = 49
        /\ items[i].sell_in = 5
        /\ BackstagePassUpdater_update_quality(items[i]).quality = 50

\* C10: called day after day, update_quality brings the quality of a Normal
\* item to 0, of an Aged Brie to 50 and of a Backstage pass to 0 for good;
\* a pass whose sell_in is negative after a call has quality 0 after that
\* call; the quality of Sulfuras stays what it was.
C10_Stabilises ==
    /\ <>[](\A i \in DOMAIN items :
               /\ IsNormal(items[i]) => items[i].quality = 0
               /\ items[i].name = AGED_BRIE => items[i].quality = 50
               /\ items[i].name = BACKSTAGE => items[i].quality = 0)
    /\ [][\A i \in DOMAIN items :
             /\ (items[i].name = BACKSTAGE /\ items'[i].sell_in < 0) =>
                    items'[i].quality = 0
             /\ items[i].name = SULFURAS =>
                    items'[i].quality = items[i].quality]_vars

\* a Backstage pass that started at quality 50 the day of the concert, at 0
\* after the concert
C10_Witness ==
    \E i \in DOMAIN items :
        /\ day = MaxSellIn + 2
        /\ items[i].name = BACKSTAGE
        /\ items[i].sell_in = -2
        /\ items[i].quality = 0

====
